---------------------------- MODULE Spec2Model ----------------------------
(***************************************************************************)
(* The daily English quiz client (EnglishQuest).                           *)
(*                                                                         *)
(* The model follows the App component with score history                 *)
(* (src/unnamed/part_005; src/App.tsx is the same component without the    *)
(* history and identity parts), the question service                      *)
(* (src/services/geminiService.ts, lines 1-129) and the identity/history   *)
(* service (src/unnamed/part_001, lines 174-322).                          *)
(*                                                                         *)
(* React state is one variable per useState cell.  An event handler runs   *)
(* to completion in one step; an async handler is cut at each await on a   *)
(* network call, and the request in flight is a variable of its own.       *)
(***************************************************************************)
EXTENDS Integers, Sequences, FiniteSets, TLC

VARIABLES
    gameState,              \* useState<GameState>
    questions,              \* useState<QuizQuestion[]>
    currentQuestionIndex,   \* useState(0)
    userAnswers,            \* useState<UserAnswer[]>
    selectedAnswer,         \* useState<string | null>
    feedback,               \* useState<AnswerFeedback>
    isLoading,              \* useState(false)
    error,                  \* useState<string | null>; <<>> is null
    selectedDifficulty,     \* useState<Difficulty>
    user,                   \* useState<User | null>
    monthlyScore,           \* useState(0)
    quizzesTaken,           \* useState(0)
    quizCache,              \* localStorage items 'myTargetQuiz-' + difficulty
    quizHistory,            \* localStorage item 'quizHistory'
    firestore,              \* the documents of users/{uid}/history, oldest first
    pendingFetch,           \* handleStartQuiz suspended at its await
    pendingSaves,           \* addDoc calls of saveScoreToFirestore in flight
    pendingSyncs,           \* batch commits of syncLocalHistoryToFirestore in flight
    pendingLoads,           \* getDocs calls of getMonthlyStatsFromFirestore in flight
    now,                    \* the client clock, in ticks
    apiKey,                 \* process.env.API_KEY as built into the bundle
    firebaseConfigured,     \* isFirebaseConfigured()
    sessionDifficulty,      \* history: the difficulty the questions on screen were obtained for
    sessions,               \* history: number of begin events so far
    authEvents,             \* history: number of auth notifications so far
    answered,               \* history: number of answers submitted so far
    invoked,                \* history: number of direct handler calls so far
    lastEvent               \* history: the last handler that ran, with its input

quizVars == <<gameState, questions, currentQuestionIndex, userAnswers,
              selectedAnswer, feedback, isLoading, error, selectedDifficulty>>
statsVars == <<monthlyScore, quizzesTaken>>
storeVars == <<quizCache, quizHistory, firestore>>
pendingVars == <<pendingFetch, pendingSaves, pendingSyncs, pendingLoads>>
configVars == <<apiKey, firebaseConfigured>>
historyVars == <<sessionDifficulty, sessions, authEvents, answered>>
vars == <<quizVars, user, statsVars, storeVars, pendingVars, now, configVars,
          historyVars, invoked, lastEvent>>

---------------------------------------------------------------------------
(* Bounds of the model. *)

\* The Question Source answers with lists of up to MaxSourceLen questions.
MaxSourceLen == 7
\* The clock runs from tick 0 to tick MaxTime.
MaxTime == 2
\* At most MaxSessions begin events are followed.
MaxSessions == 2
\* At most MaxAnswers answers are submitted in a run, over all its sessions.
MaxAnswers == 7
\* The user chooses freely among the options of the first MaxChoiceQuestions
\* questions of a session and takes the first option of the later ones.
MaxChoiceQuestions == 2
\* At most MaxInvocations handler calls bypass the buttons rendered.
MaxInvocations == 1
\* At most MaxAuthEvents notifications of the auth listener are followed.
MaxAuthEvents == 2
\* At most MaxLoads getDocs calls of loadStats are in flight at a time.
MaxLoads == 2

---------------------------------------------------------------------------
(* Values. *)

NULL == "null"

Difficulty == {"Beginner", "Intermediate", "Advanced"}

\* The difficulty buttons the user presses in the runs that are followed.
DifficultyChoices == {"Intermediate", "Advanced"}

\* Ticks in one calendar day (UTC).
TicksPerDay == 2

\* Question i of the bank the Question Source draws from. The first has four
\* options, among them a case variant of the right one and the empty string;
\* the others have two.
QuizQuestion(i) ==
    IF i = 1
    THEN [question |-> <<"Q", i>>, options |-> <<"go", "Go", "goes", "">>, correctAnswer |-> "go"]
    ELSE [question |-> <<"Q", i>>, options |-> <<"a", "b">>,
          correctAnswer |-> IF i % 2 = 0 THEN "a" ELSE "b"]

\* A list of n questions as the model of the generative service produces it.
SourceList(n) == [i \in 1..n |-> QuizQuestion(i)]


---------------------------------------------------------------------------
(* Dates, JSON and localStorage items. *)

\* new Date().toISOString(): the UTC date and the time of day.
ToISOString(t) == [day |-> t \div TicksPerDay, time |-> t % TicksPerDay]

\* iso.split('T')[0]: the date part of an ISO string.
SplitT(iso) == iso.day

\* new Date(iso): the instant an ISO string names.
ParseDate(iso) == iso.day * TicksPerDay + iso.time

\* JSON.stringify(v); a text that is no JSON is [json |-> FALSE].
JSONStringify(v) == [json |-> TRUE, value |-> v]
NotJSON == [json |-> FALSE]

\* A JSON array with the given items, and a JSON value that is no array.
JArray(items) == [type |-> "array", items |-> items]
JObject == [type |-> "object"]

\* Array.isArray(v)
IsArray(v) == v.type = "array"

\* localStorage.getItem(key) of a missing key (null), and of a stored text.
NoItem == [present |-> FALSE]
Item(text) == [present |-> TRUE, text |-> text]

Min(a, b) == IF a < b THEN a ELSE b

---------------------------------------------------------------------------
(* The question service: fetchDailyQuizQuestions. *)

\* message.includes(s), a message being its sequence of words.
Includes(message, s) == \E i \in 1..Len(message) : message[i] = s

\* The tokens of a response text: the two code-block fences (three backquotes,
\* with and without the word json), whitespace, prose, and a JSON value.
FenceJson == [t |-> "FENCE_JSON"]
Fence == [t |-> "FENCE"]
Ws == [t |-> " "]
Junk == [t |-> "junk"]
Payload(v) == [t |-> "json", v |-> v]

\* text.trim(): leading and trailing whitespace removed.
RECURSIVE TrimLeft(_)
TrimLeft(text) ==
    IF Len(text) > 0 /\ text[1].t = " " THEN TrimLeft(Tail(text)) ELSE text
RECURSIVE TrimRight(_)
TrimRight(text) ==
    IF Len(text) > 0 /\ text[Len(text)].t = " "
    THEN TrimRight(SubSeq(text, 1, Len(text) - 1))
    ELSE text
Trim(text) == TrimRight(TrimLeft(text))

\* cleanJSON: the code-block fences removed, the rest trimmed.
cleanJSON(text) ==
    Trim(SelectSeq(text, LAMBDA x : x.t \notin {"FENCE_JSON", "FENCE"}))

\* Whether JSON.parse(text) returns: the text is one JSON value.
JSONParses(text) == Len(text) = 1 /\ text[1].t = "json"

\* A key test that only knows the empty key.
KeyMissingOnlyEmpty(key) == key = ""

\* The key test of the service: !apiKey || apiKey === "undefined" || apiKey.trim() === "".
KeyMissing(key) == key = "" \/ key = "undefined" \/ key = " "

MissingKeyMessage == <<"API Key missing. Please add API_KEY to Vercel Settings and Redeploy.">>
BlockedKeyMessage == <<"API Key Invalid or Blocked. Please check Vercel Environment Variables and Redeploy.">>
EmptyResponseMessage == <<"Empty response from AI">>
ParseFailedMessage == <<"Failed to process AI response format.">>
InvalidDataMessage == <<"Invalid data structure received from API.">>
NoQuestionsMessage == <<"The API returned no questions. Please try again.">>

\* The match of /"message":\s*"([^"]+)"/ in a message, or the message itself.
ExtractMessage(message) ==
    IF \E i \in 1..(Len(message) - 1) : message[i] = "\"message\":"
    THEN LET i == CHOOSE j \in 1..(Len(message) - 1) :
                    /\ message[j] = "\"message\":"
                    /\ \A k \in 1..(j - 1) : message[k] # "\"message\":"
         IN  <<message[i + 1]>>
    ELSE message

\* A catch block that rethrows an error without its message.
RethrownBlank(errorMessage) == <<>>

\* The catch block of the service: the message of the error it rethrows.
RethrownMessage(errorMessage) ==
    IF \/ Includes(errorMessage, "leaked")
       \/ Includes(errorMessage, "PERMISSION_DENIED")
       \/ Includes(errorMessage, "403")
       \/ Includes(errorMessage, "not valid")
    THEN BlockedKeyMessage
    ELSE IF errorMessage = <<"MISSING_API_KEY">>
    THEN MissingKeyMessage
    ELSE IF Includes(errorMessage, "{")
    THEN ExtractMessage(errorMessage)
    ELSE errorMessage

\* The error thrown in the try block for a response, <<>> when none is.
ThrownMessage(response) ==
    IF response.kind = "throw" THEN response.message
    ELSE IF Len(response.text) = 0 THEN EmptyResponseMessage
    ELSE IF ~JSONParses(cleanJSON(response.text)) THEN ParseFailedMessage
    ELSE LET parsed == cleanJSON(response.text)[1].v
         IN  IF ~IsArray(parsed) \/ Len(parsed.items) < 1
             THEN InvalidDataMessage
             ELSE <<>>

\* The list handed on whole, as a service without the slice would.
SliceNone(items) == items

\* questions.slice(0, 6)
Slice6(items) == SubSeq(items, 1, Min(6, Len(items)))

\* fetchDailyQuizQuestions once generateContent has answered with response:
\* the questions it returns, or the error it throws.
FetchDailyQuizQuestions(response) ==
    IF ThrownMessage(response) # <<>>
    THEN [ok |-> FALSE, message |-> RethrownMessage(ThrownMessage(response))]
    ELSE [ok |-> TRUE, questions |-> Slice6(cleanJSON(response.text)[1].v.items)]

\* What generateContent may throw.
TransportErrors ==
    { <<"Failed to fetch">>,
      <<"{", "\"message\":", "Quota exceeded", "}">>,
      <<"{", "}">>,
      <<"got status:", "403", "PERMISSION_DENIED">>,
      <<"API key", "not valid">> }

\* The lengths of the lists the Question Source answers with: none, short
\* ones, and the two around the cut at six.
SourceLens == {0, 1, 2, MaxSourceLen - 1, MaxSourceLen}

\* What generateContent may answer.
Responses ==
    [kind : {"throw"}, message : TransportErrors]
    \cup [kind : {"text"},
          text : { <<>>, <<Ws>>, <<Junk>>, <<Junk, Payload(JArray(SourceList(3)))>>,
                   <<Payload(JObject)>> }
                 \cup { <<Payload(JArray(SourceList(n)))>> : n \in SourceLens }
                 \cup { <<FenceJson, Ws, Payload(JArray(SourceList(n))), Ws, Fence>> :
                            n \in SourceLens }]

---------------------------------------------------------------------------
(* Score history: local storage, the remote collection, the 30-day totals. *)

\* The days of the statistics window (thirtyDaysAgo.getDate() - 30).
StatsWindowDays == 30

\* thirtyDaysAgo at clock t.
ThirtyDaysAgo(t) == t - StatsWindowDays * TicksPerDay

RECURSIVE SumScores(_)
SumScores(items) ==
    IF Len(items) = 0 THEN 0 ELSE items[1].score + SumScores(Tail(items))

\* userAnswers.filter(a => a.isCorrect).length
RECURSIVE CountCorrect(_)
CountCorrect(answers) ==
    IF Len(answers) = 0 THEN 0
    ELSE (IF answers[1].isCorrect THEN 1 ELSE 0) + CountCorrect(Tail(answers))

\* The history list a 'quizHistory' item holds: historyJSON ? JSON.parse(historyJSON) : [].
LocalHistory(item) == IF item.present THEN item.text.value ELSE <<>>

\* calculateLocalMonthlyStats at clock t: the totals it sets, or the old ones
\* when JSON.parse throws.
calculateLocalMonthlyStats(item, t, old) ==
    IF item.present /\ ~item.text.json THEN old
    ELSE LET recentHistory == SelectSeq(LocalHistory(item),
                                  LAMBDA h : ParseDate(h.date) >= ThirtyDaysAgo(t))
         IN  [score |-> SumScores(recentHistory), quizzes |-> Len(recentHistory)]

\* The totals getMonthlyStatsFromFirestore computes from a snapshot of the
\* collection: every document written by this client carries createdAt.
RemoteStats(docs, cutoff) ==
    LET recent == SelectSeq(docs, LAMBDA d : d.createdAt >= cutoff)
    IN  [score |-> SumScores(recent), quizzes |-> Len(recent)]

\* The document addDoc writes for a history item at clock t.
ScoreDoc(item, t) ==
    [date |-> item.date, score |-> item.score, totalQuestions |-> item.totalQuestions,
     difficulty |-> item.difficulty, createdAt |-> t, syncedFromLocal |-> FALSE]

\* The document the migration batch sets for a local history item at clock t.
SyncedDoc(item, t) ==
    [date |-> item.date, score |-> item.score, totalQuestions |-> item.totalQuestions,
     difficulty |-> item.difficulty, createdAt |-> t, syncedFromLocal |-> TRUE]

\* loadStats(currentUser) at clock t: the getDocs calls in flight afterwards.
LoadsAfterLoadStats(currentUser, loads, t) ==
    IF currentUser # NULL
    THEN loads \cup {[cutoff |-> ThirtyDaysAgo(t), read |-> FALSE, score |-> 0, quizzes |-> 0]}
    ELSE loads

\* loadStats(currentUser) at clock t: the totals on screen afterwards.
StatsAfterLoadStats(currentUser, item, t, old) ==
    IF currentUser # NULL THEN old ELSE calculateLocalMonthlyStats(item, t, old)

---------------------------------------------------------------------------
(* The state after the component has mounted. *)

ApiKeys == {"AIzaSyKey", "", "undefined", " "}

NoFetch == [active |-> FALSE]

\* The state after mounting at clock t over the localStorage items a previous
\* visit left: the effect on [gameState, user] has run loadStats(null).
MountedAt(configured, cacheItems, historyItem, t) ==
    /\ gameState = "Start"
    /\ questions = <<>>
    /\ currentQuestionIndex = 0
    /\ userAnswers = <<>>
    /\ selectedAnswer = NULL
    /\ feedback = "None"
    /\ isLoading = FALSE
    /\ error = <<>>
    /\ selectedDifficulty = "Intermediate"
    /\ user = NULL
    /\ monthlyScore =
           calculateLocalMonthlyStats(historyItem, t, [score |-> 0, quizzes |-> 0]).score
    /\ quizzesTaken =
           calculateLocalMonthlyStats(historyItem, t, [score |-> 0, quizzes |-> 0]).quizzes
    /\ quizCache = cacheItems
    /\ quizHistory = historyItem
    /\ firestore = <<>>
    /\ pendingFetch = NoFetch
    /\ pendingSaves = <<>>
    /\ pendingSyncs = <<>>
    /\ pendingLoads = {}
    /\ now = t
    /\ apiKey \in ApiKeys
    /\ firebaseConfigured = configured
    /\ sessionDifficulty = NULL
    /\ sessions = 0
    /\ authEvents = 0
    /\ answered = 0
    /\ invoked = 0
    /\ lastEvent = [name |-> "mount"]

\* The state after mounting when the clock of the model starts.
MountedWith(configured, cacheItems, historyItem) ==
    MountedAt(configured, cacheItems, historyItem, 0)

\* The state after mounting over an empty localStorage.
Mounted(configured) ==
    MountedWith(configured, [d \in Difficulty |-> NoItem], NoItem)

\* A deployment without the backing store configured.
Init == Mounted(FALSE)

---------------------------------------------------------------------------
(* Beginning a quiz: handleStartQuiz. *)

\* A cache test that takes the entry of any other day for the day's entry.
CacheHitOtherDay(storedData, today) ==
    /\ storedData.present
    /\ storedData.text.json
    /\ storedData.text.value.date # today
    /\ IsArray(storedData.text.value.questions)
    /\ Len(storedData.text.value.questions.items) > 0

\* The cache test of handleStartQuiz on the stored item at date today.
CacheHit(storedData, today) ==
    /\ storedData.present
    /\ storedData.text.json
    /\ storedData.text.value.date = today
    /\ IsArray(storedData.text.value.questions)
    /\ Len(storedData.text.value.questions.items) > 0

\* The cache items after the lookup: an item JSON.parse throws on is removed.
CacheAfterLookup(cache, storageKey) ==
    IF cache[storageKey].present /\ ~cache[storageKey].text.json
    THEN [cache EXCEPT ![storageKey] = NoItem]
    ELSE cache

\* handleStartQuiz up to its await: the resets, the cache lookup and, on a
\* miss, the key test of the service. A missing key rejects at once, and the
\* catch and finally blocks run before any other event.
HandleStartQuiz ==
    LET today == SplitT(ToISOString(now))
        storageKey == selectedDifficulty
        storedData == quizCache[storageKey]
    IN  /\ currentQuestionIndex' = 0
        /\ userAnswers' = <<>>
        /\ selectedAnswer' = NULL
        /\ feedback' = "None"
        /\ sessions' = sessions + 1
        /\ lastEvent' = [name |-> "begin"]
        /\ IF CacheHit(storedData, today)
           THEN /\ questions' = storedData.text.value.questions.items
                /\ gameState' = "Playing"
                /\ isLoading' = FALSE
                /\ error' = <<>>
                /\ sessionDifficulty' = storageKey
                /\ UNCHANGED <<quizCache, pendingFetch>>
           ELSE IF KeyMissing(apiKey)
           THEN /\ error' = RethrownMessage(<<"MISSING_API_KEY">>)
                /\ isLoading' = FALSE
                /\ quizCache' = CacheAfterLookup(quizCache, storageKey)
                /\ UNCHANGED <<questions, gameState, pendingFetch, sessionDifficulty>>
           ELSE /\ error' = <<>>
                /\ isLoading' = TRUE
                /\ quizCache' = CacheAfterLookup(quizCache, storageKey)
                /\ pendingFetch' = [active |-> TRUE, difficulty |-> selectedDifficulty,
                                    today |-> today]
                /\ UNCHANGED <<questions, gameState, sessionDifficulty>>
        /\ UNCHANGED <<selectedDifficulty, user, statsVars, quizHistory, firestore,
                       pendingSaves, pendingSyncs, pendingLoads, now, configVars,
                       authEvents, answered>>

\* A cache item that holds the questions in the opposite order.
CacheEntryReordered(today, newQuestions) ==
    Item(JSONStringify([date |-> today,
                        questions |-> JArray([i \in 1..Len(newQuestions) |->
                                         newQuestions[Len(newQuestions) + 1 - i]])]))

\* The cache item handleStartQuiz stores for the questions fetched.
CacheEntry(today, newQuestions) ==
    Item(JSONStringify([date |-> today, questions |-> JArray(newQuestions)]))

\* A resumption that stores under the difficulty selected when the fetch answers.
ResumeStartQuizUnderSelected(response) ==
    LET result == FetchDailyQuizQuestions(response)
    IN  /\ pendingFetch.active
        /\ pendingFetch' = NoFetch
        /\ isLoading' = FALSE
        /\ lastEvent' = [name |-> "fetch", response |-> response]
        /\ IF ~result.ok
           THEN /\ error' = result.message
                /\ UNCHANGED <<questions, quizCache, gameState, sessionDifficulty>>
           ELSE IF Len(result.questions) = 0
           THEN /\ error' = NoQuestionsMessage
                /\ UNCHANGED <<questions, quizCache, gameState, sessionDifficulty>>
           ELSE /\ questions' = result.questions
                /\ quizCache' = [quizCache EXCEPT ![selectedDifficulty] =
                                    CacheEntry(pendingFetch.today, result.questions)]
                /\ gameState' = "Playing"
                /\ sessionDifficulty' = pendingFetch.difficulty
                /\ UNCHANGED error
        /\ UNCHANGED <<currentQuestionIndex, userAnswers, selectedAnswer, feedback,
                       selectedDifficulty, user, statsVars, quizHistory, firestore,
                       pendingSaves, pendingSyncs, pendingLoads, now, configVars,
                       sessions, authEvents, answered>>

\* handleStartQuiz from its await on, generateContent having answered.
ResumeStartQuiz(response) ==
    LET result == FetchDailyQuizQuestions(response)
    IN  /\ pendingFetch.active
        /\ pendingFetch' = NoFetch
        /\ isLoading' = FALSE
        /\ lastEvent' = [name |-> "fetch", response |-> response]
        /\ IF ~result.ok
           THEN /\ error' = result.message
                /\ UNCHANGED <<questions, quizCache, gameState, sessionDifficulty>>
           ELSE IF Len(result.questions) = 0
           THEN /\ error' = NoQuestionsMessage
                /\ UNCHANGED <<questions, quizCache, gameState, sessionDifficulty>>
           ELSE /\ questions' = result.questions
                /\ quizCache' = [quizCache EXCEPT ![pendingFetch.difficulty] =
                                    CacheEntry(pendingFetch.today, result.questions)]
                /\ gameState' = "Playing"
                /\ sessionDifficulty' = pendingFetch.difficulty
                /\ UNCHANGED error
        /\ UNCHANGED <<currentQuestionIndex, userAnswers, selectedAnswer, feedback,
                       selectedDifficulty, user, statsVars, quizHistory, firestore,
                       pendingSaves, pendingSyncs, pendingLoads, now, configVars,
                       sessions, authEvents, answered>>

\* A difficulty button: setSelectedDifficulty(level).
SetSelectedDifficulty(level) ==
    /\ selectedDifficulty' = level
    /\ lastEvent' = [name |-> "difficulty"]
    /\ UNCHANGED <<gameState, questions, currentQuestionIndex, userAnswers,
                   selectedAnswer, feedback, isLoading, error, user, statsVars,
                   storeVars, pendingVars, now, configVars, historyVars>>

---------------------------------------------------------------------------
(* Playing: handleAnswerSelect, handleSubmitAnswer, handleNextQuestion. *)

playFrame == <<user, statsVars, storeVars, pendingVars, now, configVars,
              sessionDifficulty, sessions, authEvents>>

\* A select without the feedback guard.
HandleAnswerSelectUnguarded(answer) ==
    /\ lastEvent' = [name |-> "select", answer |-> answer]
    /\ selectedAnswer' = answer
    /\ UNCHANGED <<gameState, questions, currentQuestionIndex, userAnswers,
                   feedback, isLoading, error, selectedDifficulty, playFrame, answered>>

HandleAnswerSelect(answer) ==
    /\ lastEvent' = [name |-> "select", answer |-> answer]
    /\ IF feedback # "None"
       THEN UNCHANGED selectedAnswer
       ELSE selectedAnswer' = answer
    /\ UNCHANGED <<gameState, questions, currentQuestionIndex, userAnswers,
                   feedback, isLoading, error, selectedDifficulty, playFrame, answered>>

\* !selectedAnswer: null and the empty string are both falsy.
NoSelection(answer) == answer = NULL \/ answer = ""

\* s.toLowerCase() on the option strings of the bank.
ToLowerCase(s) == IF s = "Go" THEN "go" ELSE s

\* A record whose comparison ignores case.
AnswerRecordIgnoringCase(currentQuestion, answer) ==
    [question |-> currentQuestion.question,
     selectedAnswer |-> answer,
     correctAnswer |-> currentQuestion.correctAnswer,
     isCorrect |-> (ToLowerCase(answer) = ToLowerCase(currentQuestion.correctAnswer))]

\* A record that does not carry the text of its question.
AnswerRecordWithoutQuestion(currentQuestion, answer) ==
    [question |-> <<"Q", 0>>,
     selectedAnswer |-> answer,
     correctAnswer |-> currentQuestion.correctAnswer,
     isCorrect |-> (answer = currentQuestion.correctAnswer)]

\* The record handleSubmitAnswer appends for a selection on a question.
AnswerRecord(currentQuestion, answer) ==
    [question |-> currentQuestion.question,
     selectedAnswer |-> answer,
     correctAnswer |-> currentQuestion.correctAnswer,
     isCorrect |-> (answer = currentQuestion.correctAnswer)]

\* A submit that shows the feedback and appends no record.
HandleSubmitAnswerWithoutRecord ==
    /\ lastEvent' = [name |-> "submit"]
    /\ IF NoSelection(selectedAnswer)
       THEN UNCHANGED <<feedback, userAnswers, answered>>
       ELSE LET currentQuestion == questions[currentQuestionIndex + 1]
                isCorrect == selectedAnswer = currentQuestion.correctAnswer
            IN  /\ feedback' = IF isCorrect THEN "Correct" ELSE "Incorrect"
                /\ answered' = answered + 1
                /\ UNCHANGED userAnswers
    /\ UNCHANGED <<gameState, questions, currentQuestionIndex, selectedAnswer,
                   isLoading, error, selectedDifficulty, playFrame>>

HandleSubmitAnswer ==
    /\ lastEvent' = [name |-> "submit"]
    /\ IF NoSelection(selectedAnswer)
       THEN UNCHANGED <<feedback, userAnswers, answered>>
       ELSE LET currentQuestion == questions[currentQuestionIndex + 1]
                isCorrect == selectedAnswer = currentQuestion.correctAnswer
            IN  /\ feedback' = IF isCorrect THEN "Correct" ELSE "Incorrect"
                /\ userAnswers' = Append(userAnswers,
                                         AnswerRecord(currentQuestion, selectedAnswer))
                /\ answered' = answered + 1
    /\ UNCHANGED <<gameState, questions, currentQuestionIndex, selectedAnswer,
                   isLoading, error, selectedDifficulty, playFrame>>

\* The history item saveQuizHistory builds.
NewHistoryItem(currentScore, total) ==
    [date |-> ToISOString(now), score |-> currentScore, totalQuestions |-> total,
     difficulty |-> selectedDifficulty]

\* A save that, signed in, also appends the item to the local list.
saveQuizHistoryToBoth(currentScore, total) ==
    LET newItem == NewHistoryItem(currentScore, total)
        updatedHistory == Append(LocalHistory(quizHistory), newItem)
    IN  IF quizHistory.present /\ ~quizHistory.text.json
        THEN UNCHANGED <<quizHistory, statsVars, pendingSaves>>
        ELSE LET written == Item(JSONStringify(updatedHistory))
                 stats == calculateLocalMonthlyStats(written, now,
                              [score |-> monthlyScore, quizzes |-> quizzesTaken])
             IN  /\ quizHistory' = written
                 /\ monthlyScore' = stats.score
                 /\ quizzesTaken' = stats.quizzes
                 /\ pendingSaves' = IF user # NULL
                                    THEN Append(pendingSaves, ScoreDoc(newItem, now))
                                    ELSE pendingSaves

\* saveQuizHistory up to its first await. Signed in, the item goes to addDoc
\* and loadStats waits for it; otherwise it is appended to the local list
\* (nothing is written when JSON.parse throws on the stored list) and
\* loadStats(null) recomputes the totals from the list just written.
saveQuizHistory(currentScore, total) ==
    LET newItem == NewHistoryItem(currentScore, total)
        updatedHistory == Append(LocalHistory(quizHistory), newItem)
    IN  IF user # NULL
        THEN /\ pendingSaves' = Append(pendingSaves, ScoreDoc(newItem, now))
             /\ UNCHANGED <<quizHistory, statsVars>>
        ELSE IF quizHistory.present /\ ~quizHistory.text.json
        THEN UNCHANGED <<quizHistory, statsVars, pendingSaves>>
        ELSE LET written == Item(JSONStringify(updatedHistory))
                 stats == calculateLocalMonthlyStats(written, now,
                              [score |-> monthlyScore, quizzes |-> quizzesTaken])
             IN  /\ quizHistory' = written
                 /\ monthlyScore' = stats.score
                 /\ quizzesTaken' = stats.quizzes
                 /\ UNCHANGED pendingSaves

\* A finish that shows the Finished screen only once the remote write is done.
finishQuizAwaitingSave ==
    LET finalScore == CountCorrect(userAnswers)
    IN  /\ saveQuizHistory(finalScore, Len(questions))
        /\ gameState' = IF user # NULL THEN gameState ELSE "Finished"

\* finishQuiz
finishQuiz ==
    LET finalScore == CountCorrect(userAnswers)
    IN  /\ saveQuizHistory(finalScore, Len(questions))
        /\ gameState' = "Finished"

\* An advance that carries the selection over to the next question.
HandleNextQuestionKeepingSelection ==
    /\ lastEvent' = [name |-> "advance"]
    /\ IF currentQuestionIndex < Len(questions) - 1
       THEN /\ currentQuestionIndex' = currentQuestionIndex + 1
            /\ feedback' = "None"
            /\ UNCHANGED <<selectedAnswer, gameState, quizHistory, statsVars, pendingSaves>>
       ELSE /\ finishQuiz
            /\ UNCHANGED <<currentQuestionIndex, selectedAnswer, feedback>>
    /\ UNCHANGED <<questions, userAnswers, isLoading, error, selectedDifficulty, user,
                   quizCache, firestore, pendingFetch, pendingSyncs, pendingLoads,
                   now, configVars, historyVars>>

HandleNextQuestion ==
    /\ lastEvent' = [name |-> "advance"]
    /\ IF currentQuestionIndex < Len(questions) - 1
       THEN /\ currentQuestionIndex' = currentQuestionIndex + 1
            /\ selectedAnswer' = NULL
            /\ feedback' = "None"
            /\ UNCHANGED <<gameState, quizHistory, statsVars, pendingSaves>>
       ELSE /\ finishQuiz
            /\ UNCHANGED <<currentQuestionIndex, selectedAnswer, feedback>>
    /\ UNCHANGED <<questions, userAnswers, isLoading, error, selectedDifficulty, user,
                   quizCache, firestore, pendingFetch, pendingSyncs, pendingLoads,
                   now, configVars, historyVars>>

\* A Start New Session button that also empties the quiz state.
StartNewSessionDiscarding ==
    LET stats == StatsAfterLoadStats(user, quizHistory, now,
                     [score |-> monthlyScore, quizzes |-> quizzesTaken])
    IN  /\ gameState' = "Start"
        /\ questions' = <<>>
        /\ currentQuestionIndex' = 0
        /\ userAnswers' = <<>>
        /\ lastEvent' = [name |-> "reset"]
        /\ monthlyScore' = stats.score
        /\ quizzesTaken' = stats.quizzes
        /\ pendingLoads' = LoadsAfterLoadStats(user, pendingLoads, now)
        /\ UNCHANGED <<selectedAnswer, feedback, isLoading, error, selectedDifficulty,
                       user, storeVars, pendingFetch, pendingSaves, pendingSyncs, now,
                       configVars, historyVars>>

\* The Start New Session button, setGameState(GameState.Start), and the
\* effect on [gameState, user] that follows it: loadStats(user).
StartNewSession ==
    LET stats == StatsAfterLoadStats(user, quizHistory, now,
                     [score |-> monthlyScore, quizzes |-> quizzesTaken])
    IN  /\ gameState' = "Start"
        /\ lastEvent' = [name |-> "reset"]
        /\ monthlyScore' = stats.score
        /\ quizzesTaken' = stats.quizzes
        /\ pendingLoads' = LoadsAfterLoadStats(user, pendingLoads, now)
        /\ UNCHANGED <<questions, currentQuestionIndex, userAnswers, selectedAnswer,
                       feedback, isLoading, error, selectedDifficulty, user, storeVars,
                       pendingFetch, pendingSaves, pendingSyncs, now, configVars,
                       historyVars>>

---------------------------------------------------------------------------
(* Identity and the remote history. *)

Users == {"u1"}

\* Remove(seq, i): the sequence without its i-th element.
Remove(seq, i) == SubSeq(seq, 1, i - 1) \o SubSeq(seq, i + 1, Len(seq))

\* Whether syncLocalHistoryToFirestore reaches batch.commit(): there is a
\* local list, it parses, and it is not empty.
SyncCommits(item) == item.present /\ item.text.json /\ Len(item.text.value) > 0

\* The auth listener, called with currentUser: setUser, the effect on
\* [gameState, user], and for a user the migration up to batch.commit().
\* When the migration returns at once, loadStats(currentUser) follows at once.
AuthStateChanged(currentUser) ==
    LET effectRuns == currentUser # user /\ gameState = "Start"
        stats == IF effectRuns
                 THEN StatsAfterLoadStats(currentUser, quizHistory, now,
                          [score |-> monthlyScore, quizzes |-> quizzesTaken])
                 ELSE [score |-> monthlyScore, quizzes |-> quizzesTaken]
        loadsOfEffect == IF effectRuns
                         THEN LoadsAfterLoadStats(currentUser, pendingLoads, now)
                         ELSE pendingLoads
        localHistory == LocalHistory(quizHistory)
    IN  /\ firebaseConfigured
        /\ authEvents < MaxAuthEvents
        /\ authEvents' = authEvents + 1
        /\ user' = currentUser
        /\ monthlyScore' = stats.score
        /\ quizzesTaken' = stats.quizzes
        /\ IF currentUser # NULL /\ SyncCommits(quizHistory)
           THEN /\ pendingSyncs' = Append(pendingSyncs,
                                     [docs |-> [i \in 1..Len(localHistory) |->
                                                   SyncedDoc(localHistory[i], now)],
                                      user |-> currentUser])
                /\ pendingLoads' = loadsOfEffect
           ELSE /\ pendingLoads' = IF currentUser # NULL
                                   THEN LoadsAfterLoadStats(currentUser, loadsOfEffect, now)
                                   ELSE loadsOfEffect
                /\ UNCHANGED pendingSyncs
        /\ UNCHANGED <<quizVars, storeVars, pendingFetch, pendingSaves, now, configVars,
                       sessionDifficulty, sessions, answered, lastEvent>>

\* A migration that clears the local list whatever batch.commit() answers.
SyncResolvesAlwaysClearing(i, ok) ==
    /\ i \in 1..Len(pendingSyncs)
    /\ pendingSyncs' = Remove(pendingSyncs, i)
    /\ IF ok
       THEN /\ firestore' = firestore \o pendingSyncs[i].docs
            /\ quizHistory' = NoItem
       ELSE /\ quizHistory' = NoItem
            /\ UNCHANGED firestore
    /\ pendingLoads' = LoadsAfterLoadStats(pendingSyncs[i].user, pendingLoads, now)
    /\ UNCHANGED <<quizVars, user, statsVars, quizCache, pendingFetch, pendingSaves,
                   now, configVars, historyVars, lastEvent>>

\* batch.commit() of the i-th migration in flight answers: on success the
\* documents are in the collection and the local list is removed; either
\* way the listener goes on to loadStats(currentUser).
SyncResolves(i, ok) ==
    /\ i \in 1..Len(pendingSyncs)
    /\ pendingSyncs' = Remove(pendingSyncs, i)
    /\ IF ok
       THEN /\ firestore' = firestore \o pendingSyncs[i].docs
            /\ quizHistory' = NoItem
       ELSE UNCHANGED <<firestore, quizHistory>>
    /\ pendingLoads' = LoadsAfterLoadStats(pendingSyncs[i].user, pendingLoads, now)
    /\ UNCHANGED <<quizVars, user, statsVars, quizCache, pendingFetch, pendingSaves,
                   now, configVars, historyVars, lastEvent>>

\* addDoc of the i-th save in flight answers; saveQuizHistory goes on to
\* loadStats(user), user being the signed-in user it was called for.
SaveResolves(i, ok) ==
    /\ i \in 1..Len(pendingSaves)
    /\ pendingSaves' = Remove(pendingSaves, i)
    /\ firestore' = IF ok THEN Append(firestore, pendingSaves[i]) ELSE firestore
    /\ pendingLoads' = LoadsAfterLoadStats("u1", pendingLoads, now)
    /\ UNCHANGED <<quizVars, user, statsVars, quizCache, quizHistory, pendingFetch,
                   pendingSyncs, now, configVars, historyVars, lastEvent>>

\* The server runs the query of a getDocs call in flight.
LoadReads(load) ==
    /\ load \in pendingLoads
    /\ ~load.read
    /\ LET stats == RemoteStats(firestore, load.cutoff)
       IN  pendingLoads' = (pendingLoads \ {load}) \cup
               {[cutoff |-> load.cutoff, read |-> TRUE,
                 score |-> stats.score, quizzes |-> stats.quizzes]}
    /\ UNCHANGED <<quizVars, user, statsVars, storeVars, pendingFetch, pendingSaves,
                   pendingSyncs, now, configVars, historyVars, lastEvent>>

\* A getDocs call returns its snapshot, or fails (the totals are then 0 and 0);
\* loadStats sets the totals.
LoadReturns(load, ok) ==
    /\ load \in pendingLoads
    /\ pendingLoads' = pendingLoads \ {load}
    /\ IF ok
       THEN /\ load.read
            /\ monthlyScore' = load.score
            /\ quizzesTaken' = load.quizzes
       ELSE /\ monthlyScore' = 0
            /\ quizzesTaken' = 0
    /\ UNCHANGED <<quizVars, user, storeVars, pendingFetch, pendingSaves,
                   pendingSyncs, now, configVars, historyVars, lastEvent>>

\* The clock advances.
Tick ==
    /\ now < MaxTime
    /\ now' = now + 1
    /\ UNCHANGED <<quizVars, user, statsVars, storeVars, pendingVars, configVars,
                   historyVars, invoked, lastEvent>>

---------------------------------------------------------------------------
(* The events the screens offer. *)

\* Start screen: a difficulty button (rendered also while loading).
ClickDifficulty ==
    /\ gameState = "Start"
    /\ \E level \in DifficultyChoices : SetSelectedDifficulty(level)
    /\ UNCHANGED invoked

\* A Start Session button that stays on the screen while loading.
ClickStartWhileLoading ==
    /\ gameState = "Start"
    /\ sessions < MaxSessions
    /\ HandleStartQuiz
    /\ UNCHANGED invoked

\* Start screen: Start Session, or Try Again; neither is rendered while loading.
ClickStart ==
    /\ gameState = "Start"
    /\ ~isLoading
    /\ sessions < MaxSessions
    /\ HandleStartQuiz
    /\ UNCHANGED invoked

GenerateContentAnswers ==
    /\ \E response \in Responses : ResumeStartQuiz(response)
    /\ UNCHANGED invoked

\* The option buttons the user may press on the current question.
OptionsOffered ==
    LET options == questions[currentQuestionIndex + 1].options
    IN  IF currentQuestionIndex < MaxChoiceQuestions
        THEN 1..Len(options)
        ELSE 1..Min(1, Len(options))

\* Quiz screen: an option button, disabled once feedback is shown.
ClickOption ==
    /\ gameState = "Playing"
    /\ feedback = "None"
    /\ \E i \in OptionsOffered :
           HandleAnswerSelect(questions[currentQuestionIndex + 1].options[i])
    /\ UNCHANGED invoked

\* Quiz screen: Check Answer, rendered while feedback is None and disabled
\* without a selection.
ClickCheckAnswer ==
    /\ gameState = "Playing"
    /\ feedback = "None"
    /\ ~NoSelection(selectedAnswer)
    /\ answered < MaxAnswers
    /\ HandleSubmitAnswer
    /\ UNCHANGED invoked

\* Quiz screen: Next / Results, rendered once feedback is shown.
ClickNext ==
    /\ gameState = "Playing"
    /\ feedback # "None"
    /\ HandleNextQuestion
    /\ UNCHANGED invoked

\* Finished screen: Start New Session.
ClickStartNewSession ==
    /\ gameState = "Finished"
    /\ StartNewSession
    /\ Cardinality(pendingLoads') <= MaxLoads
    /\ UNCHANGED invoked

AuthNotifies ==
    /\ \E currentUser \in Users \cup {NULL} : AuthStateChanged(currentUser)
    /\ Cardinality(pendingLoads') <= MaxLoads
    /\ UNCHANGED invoked

CommitAnswers ==
    /\ \E i \in 1..Len(pendingSyncs), ok \in BOOLEAN : SyncResolves(i, ok)
    /\ Cardinality(pendingLoads') <= MaxLoads
    /\ UNCHANGED invoked

AddDocAnswers ==
    /\ \E i \in 1..Len(pendingSaves), ok \in BOOLEAN : SaveResolves(i, ok)
    /\ Cardinality(pendingLoads') <= MaxLoads
    /\ UNCHANGED invoked

GetDocsRuns ==
    /\ \E load \in pendingLoads : LoadReads(load)
    /\ UNCHANGED invoked

GetDocsAnswers ==
    /\ \E load \in pendingLoads, ok \in BOOLEAN : LoadReturns(load, ok)
    /\ UNCHANGED invoked

\* The handlers called on the quiz screen whatever the buttons rendered.
InvokeAnswerSelect ==
    /\ gameState = "Playing"
    /\ feedback # "None"
    /\ \E i \in OptionsOffered :
           HandleAnswerSelect(questions[currentQuestionIndex + 1].options[i])
    /\ invoked < MaxInvocations
    /\ invoked' = invoked + 1

InvokeSubmitAnswer ==
    /\ gameState = "Playing"
    /\ feedback # "None" \/ NoSelection(selectedAnswer)
    /\ answered < MaxAnswers
    /\ HandleSubmitAnswer
    /\ invoked < MaxInvocations
    /\ invoked' = invoked + 1

InvokeNextQuestion ==
    /\ gameState = "Playing"
    /\ feedback = "None"
    /\ HandleNextQuestion
    /\ invoked < MaxInvocations
    /\ invoked' = invoked + 1

\* The client without a configured backing store: no listener is registered
\* and no sign-in is offered.
Next ==
    \/ ClickDifficulty
    \/ ClickStart
    \/ GenerateContentAnswers
    \/ ClickOption
    \/ ClickCheckAnswer
    \/ ClickNext
    \/ ClickStartNewSession
    \/ Tick

Spec == Init /\ [][Next]_vars

\* The same client with its quiz handlers also called directly, the clock
\* standing still: the quiz handlers read it only for the date of the
\* History Entry.
HandlerNext ==
    \/ ClickDifficulty
    \/ ClickStart
    \/ GenerateContentAnswers
    \/ ClickOption
    \/ ClickCheckAnswer
    \/ ClickNext
    \/ ClickStartNewSession
    \/ InvokeAnswerSelect
    \/ InvokeSubmitAnswer
    \/ InvokeNextQuestion

HandlerSpec == Init /\ [][HandlerNext]_vars

---------------------------------------------------------------------------
(* The client over the cache items a previous visit left. *)

\* What the item of a difficulty may hold when the component mounts: nothing,
\* the entries of the day and of the day before, a text that is no JSON, an
\* entry whose questions are no list, one whose list is empty, and one whose
\* list is longer than the service returns.
StoredItems ==
    { NoItem,
      CacheEntry(0, SourceList(2)),
      CacheEntry(-1, SourceList(1)),
      Item(NotJSON),
      Item(JSONStringify([date |-> 0, questions |-> JObject])),
      CacheEntry(0, <<>>),
      CacheEntry(0, SourceList(MaxSourceLen)) }

CacheInit ==
    \E item \in StoredItems :
        MountedWith(FALSE,
                    [d \in Difficulty |-> IF d = "Intermediate" THEN item ELSE NoItem],
                    NoItem)

\* The difficulty stays as mounted.
CacheNext ==
    \/ ClickStart
    \/ GenerateContentAnswers
    \/ ClickOption
    \/ ClickCheckAnswer
    \/ ClickNext
    \/ ClickStartNewSession
    \/ Tick

CacheSpec == CacheInit /\ [][CacheNext]_vars

----------------------------------------------------------------------------
(* The client with a configured backing store: the auth listener is
   registered, and sign-in, sign-out, the migration, the remote saves and the
   statistics loads interleave with the quiz. The Question Source answers
   with one question, and the clock stands still. *)

\* The quizHistory items a previous visit can have left: none, or a text
\* JSON.parse throws on.
CloudInit ==
    /\ \E item \in {NoItem, Item(NotJSON)} :
           MountedWith(TRUE, [d \in Difficulty |-> NoItem], item)
    /\ apiKey = "AIzaSyKey"

CloudResponses ==
    { response \in Responses :
        response.kind = "text" /\ response.text = <<Payload(JArray(SourceList(1)))>> }

CloudGenerateContentAnswers ==
    /\ \E response \in CloudResponses : ResumeStartQuiz(response)
    /\ UNCHANGED invoked

\* Quiz screen: the user presses the right option or a wrong one.
CloudClickOption ==
    /\ gameState = "Playing"
    /\ feedback = "None"
    /\ \E i \in 1..Min(2, Len(questions[currentQuestionIndex + 1].options)) :
           HandleAnswerSelect(questions[currentQuestionIndex + 1].options[i])
    /\ UNCHANGED invoked

CloudNext ==
    \/ ClickStart
    \/ CloudGenerateContentAnswers
    \/ CloudClickOption
    \/ ClickCheckAnswer
    \/ ClickNext
    \/ ClickStartNewSession
    \/ AuthNotifies
    \/ CommitAnswers
    \/ AddDocAnswers
    \/ GetDocsRuns
    \/ GetDocsAnswers

CloudSpec == CloudInit /\ [][CloudNext]_vars

----------------------------------------------------------------------------
(* The client opened again a month after earlier visits left a local history:
   the user signs in, the migration runs and the statistics are loaded. *)

\* The clock values at which the window of the statistics starts within the
\* times of the earlier visits.
WindowClocks == { StatsWindowDays * TicksPerDay + t : t \in 0..MaxTime }

\* The History Entry of a one-question session finished at clock t.
EntryAt(t, score) ==
    [date |-> ToISOString(t), score |-> score, totalQuestions |-> 1,
     difficulty |-> "Intermediate"]

\* The local lists of one or two entries, in the order they were appended.
WindowHistories ==
    { <<EntryAt(t, score)>> : t \in 0..MaxTime, score \in 0..1 }
    \cup { <<EntryAt(q[1], q[3]), EntryAt(q[2], q[4])>> :
               q \in { r \in (0..MaxTime) \X (0..MaxTime) \X (0..1) \X (0..1) :
                          r[1] <= r[2] } }

WindowInit ==
    /\ \E history \in WindowHistories, t \in WindowClocks :
           MountedAt(TRUE, [d \in Difficulty |-> NoItem],
                     Item(JSONStringify(history)), t)
    /\ apiKey = "AIzaSyKey"

WindowNext ==
    \/ AuthNotifies
    \/ CommitAnswers
    \/ GetDocsRuns
    \/ GetDocsAnswers

WindowSpec == WindowInit /\ [][WindowNext]_vars

----------------------------------------------------------------------------
(* The client in either deployment, with the backing store configured or
   without it, under the events of the configured client. *)

StoreInit ==
    /\ \E configured \in BOOLEAN, item \in {NoItem, Item(NotJSON)} :
           MountedWith(configured, [d \in Difficulty |-> NoItem], item)
    /\ apiKey = "AIzaSyKey"

StoreSpec == StoreInit /\ [][CloudNext]_vars

---------------------------------------------------------------------------
(* Beginning a quiz: the properties checked. *)

\* The date a begin at the present clock derives.
Today == SplitT(ToISOString(now))

\* The entry of the selected difficulty was stored by a begin on today's date.
StoredToday ==
    /\ quizCache[selectedDifficulty].present
    /\ quizCache[selectedDifficulty].text.json
    /\ quizCache[selectedDifficulty].text.value.date = Today

\* C1: a begin for a difficulty whose cache entry was stored on the same
\* calendar date enters Playing with exactly the cached question set and
\* makes no call to the Question Source, for every difficulty and date.
C1_SecondBeginServedFromCache ==
    [][ClickStart /\ StoredToday =>
          /\ gameState' = "Playing"
          /\ questions' = quizCache[selectedDifficulty].text.value.questions.items
          /\ ~pendingFetch'.active
          /\ ~isLoading'
          /\ error' = <<>>
          /\ quizCache' = quizCache]_vars

\* A second begin has just been served from the entry the first one stored.
C1_Witness ==
    /\ lastEvent.name = "begin"
    /\ sessions = 2
    /\ gameState = "Playing"
    /\ ~pendingFetch.active
    /\ quizCache[sessionDifficulty].present
    /\ quizCache[sessionDifficulty].text.value.date = Today
    /\ questions = quizCache[sessionDifficulty].text.value.questions.items

\* The response texts that hold a JSON array, bare or fenced, and the list held.
HoldsList(response) ==
    /\ response.kind = "text"
    /\ \E n \in SourceLens :
          \/ response.text = <<Payload(JArray(SourceList(n)))>>
          \/ response.text = <<FenceJson, Ws, Payload(JArray(SourceList(n))), Ws, Fence>>

ListHeld(response) ==
    (CHOOSE x \in { response.text[i] : i \in 1..Len(response.text) } : x.t = "json").v.items

SourceFails(response) ==
    ~(HoldsList(response) /\ Len(ListHeld(response)) >= 1)

\* A begin stopped by the missing credential.
BeginWithoutKey == ClickStart /\ KeyMissing(apiKey) /\ ~StoredToday

\* A begin whose call to the Question Source fails.
BeginFetchFails ==
    \E response \in Responses : ResumeStartQuiz(response) /\ SourceFails(response)

\* C3: a begin that fails, for a missing credential, a denied permission, a
\* malformed or empty response or a transport failure, leaves the phase Start
\* and exposes an error; it creates no History Entry, local or remote, and
\* writes no cache entry.
C3_FailedBeginLeavesNoTrace ==
    [][(BeginWithoutKey \/ BeginFetchFails) =>
          /\ gameState' = "Start"
          /\ error' # <<>>
          /\ quizHistory' = quizHistory
          /\ firestore' = firestore
          /\ pendingSaves' = pendingSaves
          /\ pendingSyncs' = pendingSyncs
          /\ \A d \in Difficulty :
                quizCache'[d].present => quizCache'[d] = quizCache[d]]_vars

\* The source has just denied permission on the begin of a second session,
\* the first one being in the history.
C3_Witness ==
    /\ lastEvent.name = "fetch"
    /\ lastEvent.response.kind = "throw"
    /\ Includes(lastEvent.response.message, "PERMISSION_DENIED")
    /\ gameState = "Start"
    /\ error = BlockedKeyMessage
    /\ Len(LocalHistory(quizHistory)) = 1
    /\ \E d \in Difficulty : ~quizCache[d].present

---------------------------------------------------------------------------
(* Playing: the properties checked. *)

\* The question on screen.
CurrentQuestion == questions[currentQuestionIndex + 1]

\* C4: in Playing, submit changes nothing (answers, feedback, index,
\* selection) when no selection is pending; with a selection pending it
\* appends one Answer Record whose isCorrect is true exactly when the selected
\* string is identical, case included, to the question's correctAnswer, and
\* sets feedback to Correct or Incorrect accordingly.
C4_SubmitRecordsExactMatch ==
    [][(gameState = "Playing" /\ HandleSubmitAnswer) =>
          IF selectedAnswer = NULL \/ selectedAnswer = ""
          THEN UNCHANGED <<userAnswers, feedback, currentQuestionIndex, selectedAnswer>>
          ELSE /\ Len(userAnswers') = Len(userAnswers) + 1
               /\ SubSeq(userAnswers', 1, Len(userAnswers)) = userAnswers
               /\ userAnswers'[Len(userAnswers')].selectedAnswer = selectedAnswer
               /\ userAnswers'[Len(userAnswers')].isCorrect
                     = (selectedAnswer = CurrentQuestion.correctAnswer)
               /\ feedback' = IF selectedAnswer = CurrentQuestion.correctAnswer
                              THEN "Correct" ELSE "Incorrect"
               /\ UNCHANGED <<currentQuestionIndex, selectedAnswer>>]_vars

\* The case variant of the right answer has just been submitted and marked
\* incorrect.
C4_Witness ==
    /\ lastEvent.name = "submit"
    /\ gameState = "Playing"
    /\ selectedAnswer = "Go"
    /\ CurrentQuestion.correctAnswer = "go"
    /\ feedback = "Incorrect"
    /\ Len(userAnswers) = 1
    /\ ~userAnswers[1].isCorrect

\* C5: submit invoked again on a question whose feedback is already Correct
\* or Incorrect, no advance in between, is a no-op: no further Answer Record,
\* and feedback, index and score as they were.
C5_ResubmitIsNoOp ==
    [][(gameState = "Playing" /\ feedback # "None" /\ HandleSubmitAnswer) =>
          UNCHANGED <<userAnswers, feedback, currentQuestionIndex>>]_vars

\* C6: advance takes effect only when feedback is not None: invoked while
\* feedback is None it neither increments the index nor moves to Finished.
C6_AdvanceNeedsFeedback ==
    [][(gameState = "Playing" /\ feedback = "None" /\ HandleNextQuestion) =>
          /\ currentQuestionIndex' = currentQuestionIndex
          /\ gameState' = "Playing"]_vars

\* The number of Answer Records marked correct.
CorrectRecords == Cardinality({ i \in 1..Len(userAnswers) : userAnswers[i].isCorrect })

\* C7: advance on the last question moves the phase to Finished and records
\* a History Entry whose score is the number of Answer Records marked correct,
\* whose totalQuestions is the number of questions of the session, and whose
\* difficulty is the difficulty of the session.
C7_FinishRecordsSession ==
    [][(ClickNext /\ currentQuestionIndex = Len(questions) - 1) =>
          /\ gameState' = "Finished"
          /\ Len(LocalHistory(quizHistory')) = Len(LocalHistory(quizHistory)) + 1
          /\ LET entry == LocalHistory(quizHistory')[Len(LocalHistory(quizHistory'))]
             IN  /\ entry.score = CorrectRecords
                 /\ entry.totalQuestions = Len(questions)
                 /\ entry.difficulty = sessionDifficulty]_vars

\* C8: advance on a question that is not the last adds one to the index,
\* clears the selection, sets feedback to None and keeps the phase Playing;
\* the question set and the Answer Records stay as they were.
C8_AdvanceStepsOneQuestion ==
    [][(ClickNext /\ currentQuestionIndex < Len(questions) - 1) =>
          /\ currentQuestionIndex' = currentQuestionIndex + 1
          /\ selectedAnswer' = NULL
          /\ feedback' = "None"
          /\ gameState' = "Playing"
          /\ UNCHANGED <<questions, userAnswers>>]_vars

\* An advance has just moved to the second question of a longer session, the
\* first one answered.
C8_Witness ==
    /\ lastEvent.name = "advance"
    /\ gameState = "Playing"
    /\ currentQuestionIndex = 1
    /\ Len(questions) > 2
    /\ selectedAnswer = NULL
    /\ feedback = "None"
    /\ Len(userAnswers) = 1

\* The option strings of the bank.
OptionStrings == {"go", "Go", "goes", "", "a", "b"}

\* C9: select changes the selection only while feedback is None, and then
\* sets it to the option chosen (the same option again changes nothing,
\* another option replaces the pending one); once feedback is Correct or
\* Incorrect it leaves the selection as it is. It never changes the Answer
\* Records, the index or the feedback.
C9_SelectOnlyBeforeFeedback ==
    [][\A answer \in OptionStrings :
          (gameState = "Playing" /\ HandleAnswerSelect(answer)) =>
              /\ selectedAnswer' = IF feedback = "None" THEN answer ELSE selectedAnswer
              /\ UNCHANGED <<userAnswers, currentQuestionIndex, feedback>>]_vars

\* Select has just been called for another option after a submit, and the
\* submitted selection stands.
C9_Witness ==
    /\ lastEvent.name = "select"
    /\ gameState = "Playing"
    /\ feedback # "None"
    /\ lastEvent.answer # selectedAnswer
    /\ userAnswers[Len(userAnswers)].selectedAnswer = selectedAnswer

---------------------------------------------------------------------------
(* Reset: the properties checked. *)

\* C10, as stated: in Start after a reset none of the finished session's
\* questions or answers remain in the state, and the index is back at its
\* start.
C10_ResetDiscardsSession ==
    (lastEvent.name = "reset" /\ gameState = "Start") =>
        /\ questions = <<>>
        /\ userAnswers = <<>>
        /\ currentQuestionIndex = 0

\* C10, as the code has it: reset in Finished returns the phase to Start and
\* leaves the question set, the index and the Answer Records in the state;
\* the next begin sets the index to 0 and empties the Answer Records, and the
\* question set is replaced when that begin enters Playing.
C10_ResetKeepsUntilNextBegin ==
    [][/\ ClickStartNewSession =>
             /\ gameState' = "Start"
             /\ UNCHANGED <<questions, currentQuestionIndex, userAnswers>>
       /\ ClickStart =>
             /\ currentQuestionIndex' = 0
             /\ userAnswers' = <<>>
             /\ selectedAnswer' = NULL
             /\ feedback' = "None"
       /\ (gameState = "Start" /\ gameState' = "Playing") =>
             /\ currentQuestionIndex' = 0
             /\ userAnswers' = <<>>
             /\ questions'
                   = quizCache'[sessionDifficulty'].text.value.questions.items]_vars

\* A reset has just returned to Start, the questions and the answers of the
\* finished session still in the state.
C10_Witness ==
    /\ lastEvent.name = "reset"
    /\ gameState = "Start"
    /\ Len(questions) > 0
    /\ Len(userAnswers) = Len(questions)
    /\ currentQuestionIndex = Len(questions) - 1

---------------------------------------------------------------------------
(* The quiz session: the invariants checked. *)

\* C11, as stated: in every Playing state reached right after a submit the
\* number of Answer Records equals the current index.
C11_RecordsEqualIndexAfterSubmit ==
    (gameState = "Playing" /\ lastEvent.name = "submit") =>
        Len(userAnswers) = currentQuestionIndex

\* C11, as the code has it: the index counts from 0 and moves only on
\* advance, so in Playing right after a submit (feedback Correct or
\* Incorrect) the number of Answer Records is the current index plus one,
\* and it is the current index while feedback is None.
C11_RecordsAreIndexPlusOneAfterSubmit ==
    gameState = "Playing" =>
        /\ lastEvent.name = "submit" => feedback # "None"
        /\ Len(userAnswers) = currentQuestionIndex + (IF feedback = "None" THEN 0 ELSE 1)

\* The second question has just been submitted.
C11_Witness ==
    /\ gameState = "Playing"
    /\ lastEvent.name = "submit"
    /\ currentQuestionIndex = 1
    /\ Len(userAnswers) = 2

\* C12, as stated: every session in Playing or Finished holds exactly six
\* questions and its index is in 0..5, whatever the source returned and
\* whatever the cache held.
C12_ExactlySixQuestions ==
    gameState \in {"Playing", "Finished"} =>
        /\ Len(questions) = 6
        /\ currentQuestionIndex \in 0..5

\* C13: every question of a Playing session has exactly four options and a
\* correctAnswer that is one of them; a payload with another question makes
\* begin fail instead of entering Playing.
C13_AdmittedQuestionsWellFormed ==
    gameState = "Playing" =>
        \A i \in 1..Len(questions) :
            /\ Len(questions[i].options) = 4
            /\ \E k \in 1..Len(questions[i].options) :
                   questions[i].options[k] = questions[i].correctAnswer

\* A begin whose lookup finds an entry it does not serve: a stale one, an
\* unparseable one, or one whose questions are not a non-empty list.
BeginMissesEntry ==
    /\ ClickStart
    /\ quizCache[selectedDifficulty].present
    /\ ~CacheHit(quizCache[selectedDifficulty], Today)

\* C14: the lookup of a begin serves the stored questions only if the stored
\* date is today's; a stale or malformed entry is a miss, raises no error of
\* its own, and is removed from storage by that lookup, so it is still absent
\* when the fetch that follows fails.
C14_MissPurgesEntry ==
    [][/\ (ClickStart /\ gameState' = "Playing") =>
             /\ StoredToday
             /\ questions' = quizCache[selectedDifficulty].text.value.questions.items
       /\ BeginMissesEntry =>
             /\ gameState' = "Start"
             /\ ~KeyMissing(apiKey) => (error' = <<>> /\ pendingFetch'.active)
             /\ ~quizCache'[selectedDifficulty].present
       /\ BeginFetchFails =>
             ~quizCache'[pendingFetch.difficulty].present]_vars

\* The calendar dates after date D that the clock of the model can show.
LaterDates(D) == (D + 1)..(SplitT(ToISOString(MaxTime)) + 1)

\* A begin has fetched a question set and stores it.
BeginStores == GenerateContentAnswers /\ gameState' = "Playing"

\* C15: once a question set is stored for difficulty d with calendar date D,
\* the lookup for d on date D returns the identical set, the same questions
\* with the same options in the same order, and the lookup for d on any later
\* date is a miss: a begin on a later date is not served from the entry.
C15_CacheRoundTrip ==
    [][/\ BeginStores =>
             LET d == pendingFetch.difficulty
                 D == pendingFetch.today
                 newQuestions == questions'
             IN  /\ CacheHit(quizCache'[d], D)
                 /\ quizCache'[d].text.value.questions.items = newQuestions
                 /\ \A later \in LaterDates(D) : ~CacheHit(quizCache'[d], later)
       /\ (ClickStart /\ StoredToday) =>
             /\ gameState' = "Playing"
             /\ questions' = quizCache[selectedDifficulty].text.value.questions.items
       /\ (/\ ClickStart
           /\ quizCache[selectedDifficulty].present
           /\ quizCache[selectedDifficulty].text.value.date < Today) =>
             /\ gameState' = "Start"
             /\ questions' = questions]_vars

\* A begin on the day after the entry was stored has missed it and is
\* fetching, the entry still holding the questions of the first session.
C15_Witness ==
    /\ lastEvent.name = "begin"
    /\ pendingFetch.active
    /\ quizCache[pendingFetch.difficulty].present
    /\ quizCache[pendingFetch.difficulty].text.value.date < pendingFetch.today
    /\ quizCache[pendingFetch.difficulty].text.value.questions.items = questions
    /\ Len(questions) >= 2

\* C16: the cache holds one entry per difficulty and a begin for difficulty
\* d touches no other: it is served from, or fetches for, the entry of d, it
\* overwrites the entry of d with the set fetched, and the entries of the
\* other difficulties stay as they are, also when the selected difficulty
\* changes while the fetch is in flight. No other event writes the cache.
C16_BeginTouchesOnlyItsEntry ==
    [][/\ ClickStart =>
             /\ \A e \in Difficulty \ {selectedDifficulty} : quizCache'[e] = quizCache[e]
             /\ pendingFetch'.active => pendingFetch'.difficulty = selectedDifficulty
             /\ gameState' = "Playing" =>
                   /\ questions' = quizCache[selectedDifficulty].text.value.questions.items
                   /\ sessionDifficulty' = selectedDifficulty
       /\ GenerateContentAnswers =>
             /\ \A e \in Difficulty \ {pendingFetch.difficulty} : quizCache'[e] = quizCache[e]
             /\ gameState' = "Playing" =>
                   /\ quizCache'[pendingFetch.difficulty] =
                          CacheEntry(pendingFetch.today, questions')
                   /\ sessionDifficulty' = pendingFetch.difficulty
       /\ ~(ClickStart \/ GenerateContentAnswers) => quizCache' = quizCache]_vars

\* The fetch of a begin has answered after the user chose another
\* difficulty: the set is stored under the difficulty of the begin and the
\* difficulty now selected has no entry.
C16_Witness ==
    /\ lastEvent.name = "fetch"
    /\ gameState = "Playing"
    /\ selectedDifficulty # sessionDifficulty
    /\ quizCache[sessionDifficulty].present
    /\ quizCache[sessionDifficulty].text.value.questions.items = questions
    /\ ~quizCache[selectedDifficulty].present

----------------------------------------------------------------------------
(* The score history: the properties checked. *)

\* The History Entries the local list holds, none when it is absent or
\* unreadable.
LocalEntries(item) == IF item.present /\ item.text.json THEN item.text.value ELSE <<>>

\* The History Entries held locally, remotely, or in an addDoc in flight.
EntriesHeld == Len(LocalEntries(quizHistory)) + Len(firestore) + Len(pendingSaves)

IsPrefix(s, t) == Len(s) <= Len(t) /\ SubSeq(t, 1, Len(s)) = s

\* The quiz finishes: the advance on the last question.
Finishes == ClickNext /\ gameState' = "Finished"

\* The local write of saveQuizHistory fails: signed out, the stored list is
\* unreadable.
LocalWriteFails == user = NULL /\ quizHistory.present /\ ~quizHistory.text.json

\* C17: each completed session creates exactly one History Entry, and an
\* entry once recorded is never mutated, dropped or recorded a second time:
\* the remote collection only grows by appends, the local list only grows by
\* appends until a migration hands its entries over, and no step other than a
\* finish changes how many entries there are (a failed addDoc loses its own).
C17_HistoryAppendOnly ==
    [][/\ IsPrefix(firestore, firestore')
       /\ \/ IsPrefix(LocalEntries(quizHistory), LocalEntries(quizHistory'))
          \/ (CommitAnswers /\ LocalEntries(quizHistory') = <<>>)
       /\ (Finishes /\ ~LocalWriteFails) => EntriesHeld' = EntriesHeld + 1
       /\ AddDocAnswers => EntriesHeld' \in {EntriesHeld - 1, EntriesHeld}
       /\ ~(Finishes \/ AddDocAnswers) => EntriesHeld' = EntriesHeld]_vars

\* C18: the advance on the last question enters Finished whether the history
\* write succeeds, fails or is still in flight; the answer of addDoc, good or
\* bad, changes neither the phase nor the error shown; the Finished screen is
\* left only by the reset button, and it never shows an error.
C18_FinishIgnoresHistoryWrite ==
    [][/\ (ClickNext /\ currentQuestionIndex = Len(questions) - 1) =>
             /\ gameState' = "Finished"
             /\ error' = error
       /\ AddDocAnswers => (gameState' = gameState /\ error' = error)
       /\ (gameState = "Finished" /\ gameState' # "Finished") => ClickStartNewSession
       /\ gameState' = "Finished" => error' = <<>>]_vars

\* Signed in, a session has finished and its addDoc has failed: the screen is
\* Finished and the entry is in no collection.
C18_Witness ==
    /\ gameState = "Finished"
    /\ error = <<>>
    /\ user # NULL
    /\ sessions = 1
    /\ pendingSaves = <<>>
    /\ pendingSyncs = <<>>
    /\ firestore = <<>>
    /\ ~quizHistory.present

\* The History Entry a remote document carries.
EntryOfDoc(d) ==
    [date |-> d.date, score |-> d.score, totalQuestions |-> d.totalQuestions,
     difficulty |-> d.difficulty]

\* C19: a sign-in with n >= 1 local History Entries builds a batch of n
\* documents, one per entry and in their order, for the user signing in; when
\* batch.commit() succeeds the n documents are in the remote collection and
\* the local list is cleared; when it fails the collection and the local list
\* stay as they are; a sign-in with no local history starts no transfer and
\* changes neither store.
C19_MigrationMovesLocalHistory ==
    [][/\ (AuthNotifies /\ user' # NULL) =>
             LET localHistory == LocalEntries(quizHistory)
                 n == Len(localHistory)
             IN  /\ quizHistory' = quizHistory
                 /\ firestore' = firestore
                 /\ IF n >= 1
                    THEN /\ Len(pendingSyncs') = Len(pendingSyncs) + 1
                         /\ SubSeq(pendingSyncs', 1, Len(pendingSyncs)) = pendingSyncs
                         /\ LET batch == pendingSyncs'[Len(pendingSyncs')]
                            IN  /\ batch.user = user'
                                /\ Len(batch.docs) = n
                                /\ \A k \in 1..n :
                                      /\ EntryOfDoc(batch.docs[k]) = localHistory[k]
                                      /\ batch.docs[k].syncedFromLocal
                    ELSE pendingSyncs' = pendingSyncs
       /\ CommitAnswers =>
             \E i \in 1..Len(pendingSyncs) :
                 /\ pendingSyncs' = Remove(pendingSyncs, i)
                 /\ \/ /\ firestore' = firestore \o pendingSyncs[i].docs
                       /\ ~quizHistory'.present
                    \/ /\ firestore' = firestore
                       /\ quizHistory' = quizHistory]_vars

\* Two sessions with different scores were recorded locally and one
\* migration has moved both entries: they are in the remote collection, in
\* their order, and the local list is gone.
C19_Witness ==
    /\ user # NULL
    /\ sessions = 2
    /\ pendingSyncs = <<>>
    /\ pendingSaves = <<>>
    /\ ~quizHistory.present
    /\ Len(firestore) = 2
    /\ firestore[1].syncedFromLocal /\ firestore[2].syncedFromLocal
    /\ firestore[1].score # firestore[2].score

\* The documents of the remote collection that a migration wrote.
SyncedDocs == { k \in 1..Len(firestore) : firestore[k].syncedFromLocal }

\* C20: however often the migration is invoked, each locally recorded
\* History Entry is at most once in the remote collection; a session records
\* at most one entry, so the collection never holds more migrated documents
\* than sessions were begun.
C20_MigrationNeverDuplicates ==
    Cardinality(SyncedDocs) <= sessions

----------------------------------------------------------------------------
(* The statistics: the properties checked. *)

\* The totals the local aggregate gives for a local list at clock t.
LocalStats(item, t) == calculateLocalMonthlyStats(item, t, [score |-> 0, quizzes |-> 0])

\* The one migration in flight moves the local list into the empty collection.
SoleMigrationCommits ==
    /\ CommitAnswers
    /\ Len(pendingSyncs) = 1
    /\ firestore = <<>>
    /\ firestore' # <<>>

\* C21: both stores count an entry exactly when its session was completed
\* within the trailing 30 days, so the remote aggregate over the entries a
\* migration has moved equals the local aggregate over the same entries at the
\* same clock: the migration does not change which entries are counted.
C21_SameWindowOnBothStores ==
    [][SoleMigrationCommits =>
          RemoteStats(firestore', ThirtyDaysAgo(now)) = LocalStats(quizHistory, now)]_vars

\* C22: the identity at the finish chooses the store of the History Entry:
\* signed in, the entry goes to addDoc and the local list stays as it is;
\* signed out, it is appended to the local list and no addDoc is issued; the
\* document addDoc writes is the one the finish handed over. Without a
\* configured backing store nobody is ever signed in and no remote operation
\* is ever in flight or done, while the quiz runs from begin to finish.
C22_IdentityChoosesStore ==
    [][/\ (Finishes /\ user # NULL) =>
             /\ Len(pendingSaves') = Len(pendingSaves) + 1
             /\ SubSeq(pendingSaves', 1, Len(pendingSaves)) = pendingSaves
             /\ EntryOfDoc(pendingSaves'[Len(pendingSaves')]).score = CountCorrect(userAnswers)
             /\ quizHistory' = quizHistory
       /\ (Finishes /\ user = NULL) =>
             /\ pendingSaves' = pendingSaves
             /\ firestore' = firestore
             /\ \/ LocalWriteFails /\ quizHistory' = quizHistory
                \/ /\ ~LocalWriteFails
                   /\ Len(LocalEntries(quizHistory')) = Len(LocalEntries(quizHistory)) + 1
       /\ AddDocAnswers =>
             /\ quizHistory' = quizHistory
             /\ \E i \in 1..Len(pendingSaves) :
                    firestore' \in {firestore, Append(firestore, pendingSaves[i])}
       /\ ~firebaseConfigured =>
             /\ user' = NULL
             /\ firestore' = <<>>
             /\ pendingSaves' = <<>>
             /\ pendingSyncs' = <<>>
             /\ pendingLoads' = {}]_vars

\* A session finished signed out has its entry in the local list, and the
\* next one, finished after the sign-in, has its entry in an addDoc in flight.
C22_Witness ==
    /\ gameState = "Finished"
    /\ sessions = 2
    /\ user # NULL
    /\ Len(LocalEntries(quizHistory)) = 1
    /\ Len(pendingSaves) = 1
    /\ firestore = <<>>

----------------------------------------------------------------------------
(* Begin, credential, date and difficulty: the properties checked. *)

\* C23: at most one fetch of a begin is in flight: while a fetch is in
\* flight the screen is the loading Start screen, which offers no begin, so
\* every begin event finds no fetch in flight.
C23_OneFetchInFlight ==
    [][/\ ClickStart => (~pendingFetch.active /\ ~isLoading)
       /\ pendingFetch'.active => (isLoading' /\ gameState' = "Start")
       /\ (pendingFetch.active /\ pendingFetch'.active) => pendingFetch' = pendingFetch]_vars

\* The fetch of a second begin is in flight, the first one having failed.
C23_Witness ==
    /\ pendingFetch.active
    /\ isLoading
    /\ sessions = 2
    /\ lastEvent.name = "begin"

\* The access token is absent or empty: process.env.API_KEY of a build without
\* the variable, the empty text, the text "undefined", or blanks.
TokenAbsent == apiKey \in {"", "undefined", " "}

\* C24, as stated: with the access token absent or empty every begin fails
\* with the missing-credential error, issues no call and leaves the phase
\* Start.
C24_MissingKeyFailsBegin ==
    [][(ClickStart /\ TokenAbsent) =>
          /\ gameState' = "Start"
          /\ error' = MissingKeyMessage
          /\ ~pendingFetch'.active]_vars

\* C24, as the code has it: with the access token absent or empty no call to
\* the Question Source is ever issued; a begin that misses the cache fails
\* with the missing-credential message, none of the other failures, and the
\* phase stays Start; a begin that finds the entry of the day is served from
\* it and enters Playing without needing the token.
C24_MissingKeyFailsBeginOnMiss ==
    [][TokenAbsent =>
          /\ ~pendingFetch'.active
          /\ (ClickStart /\ ~CacheHit(quizCache[selectedDifficulty], Today)) =>
                /\ gameState' = "Start"
                /\ ~isLoading'
                /\ error' = MissingKeyMessage
                /\ error' \notin {BlockedKeyMessage, EmptyResponseMessage, ParseFailedMessage,
                                  InvalidDataMessage, NoQuestionsMessage}
          /\ (ClickStart /\ CacheHit(quizCache[selectedDifficulty], Today)) =>
                /\ gameState' = "Playing"
                /\ error' = <<>>
                /\ questions' = quizCache[selectedDifficulty].text.value.questions.items]_vars

\* Without a token, a begin over a stale entry has failed with the
\* missing-credential message.
C24_Witness ==
    /\ TokenAbsent
    /\ lastEvent.name = "begin"
    /\ gameState = "Start"
    /\ error = MissingKeyMessage
    /\ quizCache[selectedDifficulty].present
    /\ ~pendingFetch.active

\* The offsets of the client's time zone from UTC, in ticks of the clock.
TimeZoneOffsets == -1..1

\* The calendar date at clock t in the time zone of the given offset.
LocalDate(t, offset) == (t + offset) \div TicksPerDay

\* C25: the date of the Daily Cache key is the calendar date in the client's
\* time zone, whatever that zone is: a begin that fetches takes the local date
\* of its click for the entry it will store, and a begin is served from an
\* entry exactly when the entry carries the local date of the click.
C25_KeyDateIsLocalDate ==
    [][\A offset \in TimeZoneOffsets :
          /\ (ClickStart /\ pendingFetch'.active) =>
                pendingFetch'.today = LocalDate(now, offset)
          /\ (ClickStart /\ quizCache[selectedDifficulty].present) =>
                ((gameState' = "Playing") <=>
                     quizCache[selectedDifficulty].text.value.date = LocalDate(now, offset))]_vars

\* C26: the difficulty a History Entry records is the difficulty its
\* session's questions were obtained for, the one of the cache key and of the
\* call to the source, whenever the difficulty buttons were pressed.
C26_EntryRecordsSessionDifficulty ==
    [][(Finishes /\ quizHistory' # quizHistory) =>
          LocalEntries(quizHistory')[Len(LocalEntries(quizHistory'))].difficulty
              = sessionDifficulty]_vars

----------------------------------------------------------------------------
(* Overlapping migrations, saves and loads: the properties checked. *)

\* The documents a step appends to the remote collection.
Written == SubSeq(firestore', Len(firestore) + 1, Len(firestore'))

\* C27: when migrations overlap, each local History Entry still reaches the
\* remote collection exactly once: the commit of a migration writes only
\* entries the local list still holds, those a commit before it has moved
\* being gone from the list and not written again.
C27_OverlappingMigrationsWriteOnce ==
    [][(CommitAnswers /\ firestore' # firestore) =>
          /\ Len(Written) <= Len(LocalEntries(quizHistory))
          /\ \A k \in 1..Len(Written) :
                 k <= Len(LocalEntries(quizHistory)) =>
                     EntryOfDoc(Written[k]) = LocalEntries(quizHistory)[k]]_vars

\* C28: an entry is removed from the local list only when that entry has
\* been transferred: the commit that clears the list has written a document
\* for every entry the list holds at that moment, also for one appended since
\* the migration read the list.
C28_ClearedEntriesWereTransferred ==
    [][(CommitAnswers /\ quizHistory' # quizHistory) =>
          /\ Len(LocalEntries(quizHistory)) <= Len(Written)
          /\ \A k \in 1..Len(LocalEntries(quizHistory)) :
                 k <= Len(Written) =>
                     EntryOfDoc(Written[k]) = LocalEntries(quizHistory)[k]]_vars

\* The totals on the screen.
Displayed == [score |-> monthlyScore, quizzes |-> quizzesTaken]

\* The 30-day aggregate of the store in use: the remote collection for a
\* signed-in user, the local list otherwise.
ActiveStoreStats ==
    IF user # NULL THEN RemoteStats(firestore, ThirtyDaysAgo(now))
    ELSE LocalStats(quizHistory, now)

\* The last getDocs call in flight returns its snapshot and loadStats shows
\* it, no save and no migration being in flight.
LastLoadReturns ==
    /\ GetDocsAnswers
    /\ pendingLoads' = {}
    /\ pendingSaves = <<>>
    /\ pendingSyncs = <<>>
    /\ \E load \in pendingLoads :
           /\ load.read
           /\ monthlyScore' = load.score
           /\ quizzesTaken' = load.quizzes

\* C29: once the saves, the migrations and the loads have completed, the
\* totals on the screen are the aggregate of the store in use: the load that
\* returns last shows what that store holds, a load issued before a write or
\* a sign-out never replacing the totals of a later one.
C29_LastLoadShowsActiveStore ==
    [][LastLoadReturns =>
          [score |-> monthlyScore', quizzes |-> quizzesTaken'] = ActiveStoreStats]_vars

----------------------------------------------------------------------------
(* The session under the events of the screens: the invariant checked. *)

\* C30: under begin, select, submit, advance and reset, in Playing the index
\* is below the number of questions and there are index + 1 Answer Records
\* when feedback is Correct or Incorrect and index records when it is None; in
\* Finished there is one record per question, the i-th carrying the text and
\* the correctAnswer of the i-th question, and the score lies between 0 and
\* the number of questions.
C30_SessionInvariant ==
    /\ gameState = "Playing" =>
          /\ currentQuestionIndex \in 0..(Len(questions) - 1)
          /\ feedback \in {"Correct", "Incorrect"} =>
                Len(userAnswers) = currentQuestionIndex + 1
          /\ feedback = "None" => Len(userAnswers) = currentQuestionIndex
    /\ gameState = "Finished" =>
          /\ Len(userAnswers) = Len(questions)
          /\ \A i \in 1..Len(userAnswers) :
                /\ userAnswers[i].question = questions[i].question
                /\ userAnswers[i].correctAnswer = questions[i].correctAnswer
          /\ CountCorrect(userAnswers) \in 0..Len(questions)

\* A session of several questions has finished with some answers right and
\* some wrong.
C30_Witness ==
    /\ gameState = "Finished"
    /\ Len(questions) >= 3
    /\ Len(userAnswers) = Len(questions)
    /\ CountCorrect(userAnswers) \in 1..(Len(questions) - 1)

=============================================================================
